---- MODULE Spec2Model ----
(***************************************************************************)
(* State-machine model of the trollbox chat backend (src/server.js): the   *)
(* in-memory maps, the HTTP registration and history routes and the        *)
(* socket.io handlers                                                      *)
(* connection, join_board, leave_board, send_message, add_reaction and     *)
(* disconnect.  One action is one handler run to completion (node runs a   *)
(* handler without interleaving).                                          *)
(*                                                                         *)
(* JavaScript strings are tuples of one-character strings, so that trim,   *)
(* substring, slice, startsWith, toLowerCase and the /based/i test are     *)
(* computed as the code computes them.                                     *)
(***************************************************************************)
EXTENDS Integers, Sequences, FiniteSets, TLC

VARIABLES
    users,              \* Map userId -> {id, username, avatar}
    userIdCounter,      \* let userIdCounter
    messages,           \* Map boardId -> array of messages
    boardUsers,         \* Map boardId -> Set of userInfo objects (insertion order)
    boardOrder,         \* insertion order of the keys of boardUsers
    bannedIPs,          \* Set of banned origins
    messageTimestamps,  \* Map socket.id -> array of timestamps
    reactions,          \* Map messageId -> Map(emoji -> Set(userId))
    connected,          \* io.sockets.sockets: the sockets that are connected
    clientIP,           \* socket.id -> clientIP of every socket ever accepted or rejected
    socketSeq,          \* number of sockets created so far (socket ids are 1..socketSeq)
    now,                \* Date.now()
    msgSeq,             \* number of message ids drawn so far
    alive,              \* the node process is running (no uncaught exception yet)
    out,                \* the emits made by the last handler, in order
    ev,                 \* the event the last handler handled
    lastRoster,         \* history: boardId -> users of the last online_users_update
    joined,             \* history: <<boardId, socket.id>> joined and not since left or disconnected
    sendTimes,          \* history: socket.id -> times of all its send_message events
    regLog,             \* history: <<folded name, returned id>> of every accepted POST /api/users
    reactSent,          \* history: <<messageId, emoji, userId>> of add_reaction events by registered ids
    refused,            \* history: socket ids whose origin was in bannedIPs when they connected
    response            \* the body of the last response to GET /api/boards/:boardId/messages

vars == <<users, userIdCounter, messages, boardUsers, boardOrder, bannedIPs,
          messageTimestamps, reactions, connected, clientIP, socketSeq, now,
          msgSeq, alive, out, ev, lastRoster, joined, sendTimes, regLog,
          reactSent, refused, response>>

----------------------------------------------------------------------------
(* Bounds of the exploration *)

MaxSockets  == 2        \* sockets created in one run
MaxEntries  == 2        \* userInfo objects in one board set
MaxUsers    == 3        \* registrations in one run (SpecUsers)
MaxStored   == 2        \* chat messages stored in one run (SpecChat)
MaxAppends  == 3        \* chat messages appended past the prefilled log (SpecLog)
MaxSends    == 3        \* send_message events in one run (SpecBan, SpecMod)
MaxTicks    == 2        \* clock advances in one run
TickMs      == 30000    \* size of one clock advance, in ms

(* Program constants *)

WINDOW_MS    == 30000   \* timestamps[0] < Date.now() - 30000
RATE_LIMIT   == 10      \* timestamps.length > 10
MAX_MESSAGES == 1000    \* boardMessages.length > 1000
HISTORY_MAX  == 100     \* boardMessages.slice(-100)

NullId    == 0          \* the JavaScript value null, as a userId
MissingId == 0 - 1      \* the JavaScript value undefined, as a userId
MOD_USER_ID == NullId   \* const MOD_USER_ID = null

BoardIds == {"b", "biz", "pol", "crypto", "tech", "memes"}

----------------------------------------------------------------------------
(* JavaScript string operations *)

Upper == <<"A","B","C","D","E","F","G","H","I","J","K","L","M",
           "N","O","P","Q","R","S","T","U","V","W","X","Y","Z">>
Lower == <<"a","b","c","d","e","f","g","h","i","j","k","l","m",
           "n","o","p","q","r","s","t","u","v","w","x","y","z">>

SetMin(S) == CHOOSE x \in S : \A y \in S : x <= y
SetMax(S) == CHOOSE x \in S : \A y \in S : x >= y

ToLowerChar(c) ==
    IF \E i \in 1..26 : Upper[i] = c
    THEN Lower[CHOOSE i \in 1..26 : Upper[i] = c] ELSE c

ToUpperChar(c) ==
    IF \E i \in 1..26 : Lower[i] = c
    THEN Upper[CHOOSE i \in 1..26 : Lower[i] = c] ELSE c

toLowerCase(s) == [i \in 1..Len(s) |-> ToLowerChar(s[i])]
toUpperCase(s) == [i \in 1..Len(s) |-> ToUpperChar(s[i])]

IsSpace(c) == c \in {" ", "\t"}

trim(s) ==
    LET keep == {i \in 1..Len(s) : ~IsSpace(s[i])}
    IN  IF keep = {} THEN <<>> ELSE SubSeq(s, SetMin(keep), SetMax(keep))

\* s.substring(0, n)
substring0(s, n) == SubSeq(s, 1, IF Len(s) < n THEN Len(s) ELSE n)

\* s.slice(n)
slice(s, n) == SubSeq(s, n + 1, Len(s))

startsWith(s, p) == Len(s) >= Len(p) /\ SubSeq(s, 1, Len(p)) = p

Based == <<"b","a","s","e","d">>

\* /based/i.test(s)
testBased(s) ==
    \E i \in 1..(Len(s) - 4) : toLowerCase(SubSeq(s, i, i + 4)) = Based

BanIpPrefix   == <<"/","b","a","n","i","p"," ">>
BanUserPrefix == <<"/","b","a","n"," ","@">>
Unknown       == <<"u","n","k","n","o","w","n">>
Anonymous     == <<"A","n","o","n","y","m","o","u","s">>
AN            == <<"A","N">>

----------------------------------------------------------------------------
(* Emitted events *)

NoUsers == <<>>

\* io.to(room).emit(type, ...)
RoomEmit(type, room, usrs, count, msgId) ==
    [type |-> type, room |-> room, sock |-> 0, users |-> usrs,
     count |-> count, msgId |-> msgId]

\* socket.emit(type, ...)
SocketEmit(type, s) ==
    [type |-> type, room |-> "", sock |-> s, users |-> NoUsers,
     count |-> 0, msgId |-> 0]

Event(type, s, board, uid, text, res) ==
    [type |-> type, sid |-> s, board |-> board, uid |-> uid, text |-> text,
     result |-> res]

NoEvent == Event("none", 0, "", 0, <<>>, 0)

----------------------------------------------------------------------------
(* Presence sets *)

HasSocket(set, sid) == \E i \in 1..Len(set) : set[i].socketId = sid

RemoveHead(set, sid) == IF set = <<>> THEN set ELSE Tail(set)

\* for (const userInfo of usersSet) if (userInfo.socketId === socket.id)
\*   { usersSet.delete(userInfo); break; }
RemoveFirst(set, sid) ==
    LET idx == {i \in 1..Len(set) : set[i].socketId = sid}
    IN  IF idx = {} THEN set
        ELSE LET k == SetMin(idx)
             IN  SubSeq(set, 1, k - 1) \o SubSeq(set, k + 1, Len(set))

\* Array.from(set).map(u => ({userId, username, avatar}))
OnlineUsers(set) ==
    [i \in 1..Len(set) |->
        [userId |-> set[i].userId, username |-> set[i].username,
         avatar |-> set[i].avatar]]

\* the online_users_update / user_count_update pair
RosterEmits(b, set) ==
    << RoomEmit("online_users_update", b, OnlineUsers(set), Len(set), 0),
       RoomEmit("user_count_update", b, NoUsers, Len(set), 0) >>

\* the part of the state a handler and the disconnect listener it may call change
Cur ==
    [bu |-> boardUsers, order |-> boardOrder, ts |-> messageTimestamps,
     conn |-> connected, banned |-> bannedIPs, out |-> <<>>]

RECURSIVE DisconnectBoards(_, _, _, _)
\* boardUsers.forEach((usersSet, boardId) => { remove first; broadcast })
DisconnectBoards(st, order, i, sid) ==
    IF i > Len(order) THEN st
    ELSE LET b   == order[i]
             set == st.bu[b]
         IN  IF HasSocket(set, sid)
             THEN LET set2 == RemoveFirst(set, sid)
                  IN  DisconnectBoards(
                        [st EXCEPT !.bu = [@ EXCEPT ![b] = set2],
                                   !.out = @ \o RosterEmits(b, set2)],
                        order, i + 1, sid)
             ELSE DisconnectBoards(st, order, i + 1, sid)

\* socket.on('disconnect', ...)
OnDisconnect(st, sid) ==
    DisconnectBoards(
        [st EXCEPT !.ts = [s \in (DOMAIN st.ts) \ {sid} |-> st.ts[s]]],
        st.order, 1, sid)

\* socket.disconnect(true) on an accepted socket: the socket leaves
\* io.sockets.sockets and its 'disconnect' listener runs; on a socket that is
\* already disconnected it does nothing
SocketDisconnect(st, sid) ==
    IF sid \in st.conn
    THEN OnDisconnect([st EXCEPT !.conn = @ \ {sid}], sid)
    ELSE st

RECURSIVE RosterAfter(_, _, _)
\* the users of the last online_users_update per board after the emits o[i..]
RosterAfter(prev, o, i) ==
    IF i > Len(o) THEN prev
    ELSE IF o[i].type = "online_users_update"
         THEN RosterAfter(
                [b \in (DOMAIN prev) \cup {o[i].room} |->
                    IF b = o[i].room THEN o[i].users ELSE prev[b]],
                o, i + 1)
         ELSE RosterAfter(prev, o, i + 1)

\* write back what a handler changed
Commit(st) ==
    /\ boardUsers' = st.bu
    /\ boardOrder' = st.order
    /\ messageTimestamps' = st.ts
    /\ connected' = st.conn
    /\ bannedIPs' = st.banned
    /\ out' = st.out
    /\ lastRoster' = RosterAfter(lastRoster, st.out, 1)
    /\ joined' = {p \in joined : p[2] \in st.conn}

----------------------------------------------------------------------------
(* Initial state: lines 30-46 *)

InitRest ==
    /\ users = [i \in {1} |-> [id |-> 1, username |-> Anonymous, avatar |-> AN]]
    /\ userIdCounter = 1
    /\ boardUsers = [b \in {} |-> <<>>]
    /\ boardOrder = <<>>
    /\ bannedIPs = {}
    /\ messageTimestamps = [s \in {} |-> <<>>]
    /\ reactions = [m \in {} |-> <<>>]
    /\ connected = {}
    /\ clientIP = [s \in {} |-> <<>>]
    /\ socketSeq = 0
    /\ now = 0
    /\ alive = TRUE
    /\ out = <<>>
    /\ ev = NoEvent
    /\ lastRoster = [b \in {} |-> <<>>]
    /\ joined = {}
    /\ sendTimes = [s \in {} |-> <<>>]
    /\ regLog = {}
    /\ reactSent = {}
    /\ refused = {}
    /\ response = <<>>

Init ==
    /\ InitRest
    /\ messages = [b \in BoardIds |-> <<>>]
    /\ msgSeq = 0

----------------------------------------------------------------------------
(* io.on('connection', ...) *)

NeverBanned(ip) == FALSE

\* if (bannedIPs.has(clientIP))
IsBanned(ip) == ip \in bannedIPs

Connect(ip) ==
    /\ alive
    /\ socketSeq < MaxSockets
    /\ LET s == socketSeq + 1
       IN  /\ socketSeq' = s
           /\ clientIP' = [x \in (DOMAIN clientIP) \cup {s} |->
                              IF x = s THEN ip ELSE clientIP[x]]
           /\ refused' = IF ip \in bannedIPs THEN refused \cup {s} ELSE refused
           /\ IF IsBanned(ip)
              THEN /\ out' = << SocketEmit("error", s) >>
                   /\ ev' = Event("connection", s, "", 0, ip, 0)
                   /\ UNCHANGED <<connected, messageTimestamps, sendTimes>>
              ELSE /\ out' = <<>>
                   /\ ev' = Event("connection", s, "", 0, ip, 1)
                   /\ connected' = connected \cup {s}
                   /\ messageTimestamps' =
                        [x \in (DOMAIN messageTimestamps) \cup {s} |->
                            IF x = s THEN <<>> ELSE messageTimestamps[x]]
                   /\ sendTimes' = [x \in (DOMAIN sendTimes) \cup {s} |->
                                       IF x = s THEN <<>> ELSE sendTimes[x]]
    /\ UNCHANGED <<users, userIdCounter, messages, boardUsers, boardOrder,
                   bannedIPs, reactions, now, msgSeq, alive, lastRoster,
                   joined, regLog, reactSent, response>>

\* the client closes the connection: the 'disconnect' listener runs
ClientDisconnect(s) ==
    /\ alive
    /\ s \in connected
    /\ Commit(SocketDisconnect(Cur, s))
    /\ ev' = Event("disconnect", s, "", 0, <<>>, 0)
    /\ UNCHANGED <<users, userIdCounter, messages, reactions, clientIP,
                   socketSeq, now, msgSeq, alive, sendTimes, regLog,
                   reactSent, refused, response>>

----------------------------------------------------------------------------
(* socket.on('join_board', ({ boardId, user }) => ...) *)

NoUser == [id |-> MissingId, username |-> <<>>, avatar |-> <<>>]

MissingUserOnly(user) == user = NoUser \/ user.id = MissingId

\* if (!user || !users.has(user.id))
InvalidUser(user) == user = NoUser \/ user.id \notin DOMAIN users

JoinBoard(s, b, user) ==
    /\ alive
    /\ s \in connected
    /\ ev' = Event("join_board", s, b, user.id, user.username, 0)
    /\ IF InvalidUser(user)
       THEN /\ out' = <<>>
            /\ UNCHANGED <<boardUsers, boardOrder, lastRoster, joined>>
       ELSE LET userInfo == [socketId |-> s, userId |-> user.id,
                             username |-> user.username, avatar |-> user.avatar]
                old == IF b \in DOMAIN boardUsers THEN boardUsers[b] ELSE <<>>
                set == Append(old, userInfo)
            IN  /\ Len(old) < MaxEntries
                /\ boardUsers' = [x \in (DOMAIN boardUsers) \cup {b} |->
                                    IF x = b THEN set ELSE boardUsers[x]]
                /\ boardOrder' = IF b \in DOMAIN boardUsers THEN boardOrder
                                 ELSE Append(boardOrder, b)
                /\ out' = RosterEmits(b, set)
                /\ lastRoster' = RosterAfter(lastRoster, RosterEmits(b, set), 1)
                /\ joined' = joined \cup {<<b, s>>}
    /\ UNCHANGED <<users, userIdCounter, messages, bannedIPs, messageTimestamps,
                   reactions, connected, clientIP, socketSeq, now, msgSeq, alive,
                   sendTimes, regLog, reactSent, refused, response>>

(* socket.on('leave_board', (boardId) => ...) *)

LeaveBoard(s, b) ==
    /\ alive
    /\ s \in connected
    /\ ev' = Event("leave_board", s, b, 0, <<>>, 0)
    /\ IF b \notin DOMAIN boardUsers
       THEN /\ out' = <<>>
            /\ UNCHANGED <<boardUsers, lastRoster, joined>>
       ELSE LET set  == boardUsers[b]
                set2 == RemoveFirst(set, s)
            IN  IF HasSocket(set, s)
                THEN /\ boardUsers' = [boardUsers EXCEPT ![b] = set2]
                     /\ out' = RosterEmits(b, set2)
                     /\ lastRoster' = RosterAfter(lastRoster, RosterEmits(b, set2), 1)
                     /\ joined' = joined \ {<<b, s>>}
                ELSE /\ out' = <<>>
                     /\ UNCHANGED <<boardUsers, lastRoster, joined>>
    /\ UNCHANGED <<users, userIdCounter, messages, boardOrder, bannedIPs,
                   messageTimestamps, reactions, connected, clientIP, socketSeq,
                   now, msgSeq, alive, sendTimes, regLog, reactSent,
                   refused, response>>

----------------------------------------------------------------------------
(* socket.on('send_message', ({ boardId, message, userId }) => ...) *)

DropNone(ts, t) == ts

RECURSIVE DropOld(_, _)
\* while (timestamps.length && timestamps[0] < Date.now() - 30000) timestamps.shift()
DropOld(ts, t) ==
    IF Len(ts) > 0 /\ ts[1] < t - WINDOW_MS THEN DropOld(Tail(ts), t) ELSE ts

OverLimitOffByOne(ts) == Len(ts) > RATE_LIMIT + 1

\* if (timestamps.length > 10)
OverLimit(ts) == Len(ts) > RATE_LIMIT

\* users.get(messageUserId) || users.get(1)
LookupUser(uid) ==
    IF uid \in DOMAIN users THEN users[uid]
    ELSE IF 1 \in DOMAIN users THEN users[1] ELSE NoUser

NobodyModerator(uid) == FALSE

EveryoneModerator(uid) == TRUE

\* if (messageUserId === MOD_USER_ID)
IsModerator(uid) == uid = MOD_USER_ID

NameMatchesAnyCase(u, target) == toLowerCase(u.username) = toLowerCase(target)

\* if (u.username === targetUsername)
NameMatches(u, target) == u.username = target

RECURSIVE BanLoop(_, _, _, _, _)
\* boardUsers.forEach((set, bid) => set.forEach(u => { if (u.username === target)
\*   { bannedIPs.add(targetIP); io.sockets.sockets.get(u.socketId)?.disconnect(true) } }))
\* bi, i: the board and the entry being visited.  A disconnect deletes the first
\* entry of that socket in every set; forEach goes on with the entries not yet
\* visited.
BanLoop(st, s, target, bi, i) ==
    IF bi > Len(st.order) THEN st
    ELSE LET b   == st.order[bi]
             set == st.bu[b]
         IN  IF i > Len(set) THEN BanLoop(st, s, target, bi + 1, 1)
             ELSE LET u == set[i]
                  IN  IF NameMatches(u, target)
                      THEN LET targetIP == IF u.socketId = s THEN clientIP[s]
                                           ELSE Unknown
                               st1 == [st EXCEPT !.banned = @ \cup {targetIP}]
                               st2 == SocketDisconnect(st1, u.socketId)
                               gone == Len(st2.bu[b]) < Len(set)
                           IN  BanLoop(st2, s, target, bi,
                                       IF gone THEN i ELSE i + 1)
                      ELSE BanLoop(st, s, target, bi, i + 1)

\* messages.get(boardId) || []
BoardLog(b) == IF b \in DOMAIN messages THEN messages[b] ELSE <<>>

AppendNoEvict(log, m) == Append(log, m)

AppendEvictEarly(log, m) ==
    IF Len(log) + 1 >= MAX_MESSAGES THEN Tail(Append(log, m)) ELSE Append(log, m)

\* boardMessages.push(messageData); if (boardMessages.length > 1000) boardMessages.shift()
AppendBounded(log, m) ==
    IF Len(log) + 1 > MAX_MESSAGES THEN Tail(Append(log, m)) ELSE Append(log, m)

ConfettiAlways(b, trimmed, id) ==
    << RoomEmit("confetti_trigger", b, NoUsers, 0, id) >>

ConfettiCaseSensitive(b, trimmed, id) ==
    IF \E i \in 1..(Len(trimmed) - 4) : SubSeq(trimmed, i, i + 4) = Based
    THEN << RoomEmit("confetti_trigger", b, NoUsers, 0, id) >> ELSE <<>>

\* if (/based/i.test(trimmedMessage)) io.to(boardId).emit('confetti_trigger', { messageId })
ConfettiEmits(b, trimmed, id) ==
    IF testBased(trimmed)
    THEN << RoomEmit("confetti_trigger", b, NoUsers, 0, id) >> ELSE <<>>

NeverEmpty(trimmed) == FALSE

\* if (trimmedMessage === '')
EmptyText(trimmed) == trimmed = <<>>

SendMessage(s, b, text, uid) ==
    /\ alive
    /\ s \in connected
    /\ ev' = Event("send_message", s, b, uid, text, 0)
    /\ sendTimes' = [sendTimes EXCEPT ![s] = Append(@, now)]
    /\ LET ts1 == DropOld(Append(messageTimestamps[s], now), now)
           st0 == [Cur EXCEPT !.ts = [@ EXCEPT ![s] = ts1]]
           user == LookupUser(uid)
           trimmed == trim(text)
       IN  IF OverLimit(ts1)
           THEN \* auto-ban
                /\ Commit(SocketDisconnect(
                      [st0 EXCEPT !.banned = @ \cup {clientIP[s]},
                                  !.out = << SocketEmit("error", s) >>], s))
                /\ UNCHANGED <<messages, msgSeq>>
           ELSE IF user = NoUser
           THEN /\ Commit([st0 EXCEPT !.out = << SocketEmit("error", s) >>])
                /\ UNCHANGED <<messages, msgSeq>>
           ELSE IF EmptyText(trimmed)
           THEN /\ Commit(st0)
                /\ UNCHANGED <<messages, msgSeq>>
           ELSE IF IsModerator(uid) /\ startsWith(trimmed, BanIpPrefix)
           THEN /\ Commit([st0 EXCEPT
                              !.banned = @ \cup {trim(slice(trimmed, 7))},
                              !.out = << SocketEmit("notice", s) >>])
                /\ UNCHANGED <<messages, msgSeq>>
           ELSE IF IsModerator(uid) /\ startsWith(trimmed, BanUserPrefix)
           THEN /\ LET st1 == BanLoop(st0, s, trim(slice(trimmed, 6)), 1, 1)
                   IN  Commit([st1 EXCEPT
                                  !.out = @ \o << SocketEmit("notice", s) >>])
                /\ UNCHANGED <<messages, msgSeq>>
           ELSE \* an ordinary chat message
                LET messageId == msgSeq + 1
                    messageData ==
                        [id |-> messageId, board_id |-> b, user_id |-> user.id,
                         username |-> user.username, avatar |-> user.avatar,
                         message |-> trimmed, timestamp |-> now]
                    log == AppendBounded(BoardLog(b), messageData)
                IN  /\ msgSeq' = messageId
                    /\ messages' = [x \in (DOMAIN messages) \cup {b} |->
                                       IF x = b THEN log ELSE messages[x]]
                    /\ Commit([st0 EXCEPT !.out =
                          << RoomEmit("new_message", b, NoUsers, 0, messageId) >>
                          \o ConfettiEmits(b, trimmed, messageId)])
    /\ UNCHANGED <<users, userIdCounter, reactions, clientIP, socketSeq, now,
                   alive, regLog, reactSent, refused, response>>

----------------------------------------------------------------------------
(* app.post('/api/users', ...) *)

Register(username) ==
    /\ alive
    /\ userIdCounter <= MaxUsers
    /\ IF username = <<>> \/ trim(username) = <<>>
       THEN \* 400 Username required
            /\ ev' = Event("register", 0, "", 0, username, 0)
            /\ UNCHANGED <<users, userIdCounter, regLog>>
       ELSE LET id      == userIdCounter + 1
                trimmed == substring0(trim(username), 20)
                initials == toUpperCase(substring0(trimmed, 2))
                avatar  == IF initials = <<>> THEN AN ELSE initials
                user    == [id |-> id, username |-> trimmed, avatar |-> avatar]
            IN  /\ userIdCounter' = id
                /\ users' = [x \in (DOMAIN users) \cup {id} |->
                                IF x = id THEN user ELSE users[x]]
                /\ ev' = Event("register", 0, "", id, username, id)
                /\ regLog' = regLog \cup {<<toLowerCase(trimmed), id>>}
    /\ out' = <<>>
    /\ UNCHANGED <<messages, boardUsers, boardOrder, bannedIPs, messageTimestamps,
                   reactions, connected, clientIP, socketSeq, now, msgSeq, alive,
                   lastRoster, joined, sendTimes, reactSent, refused, response>>

----------------------------------------------------------------------------
(* socket.on('add_reaction', ({ messageId, emoji, userId }) => ...) *)

\* reactions.get(messageId).get(emoji), the empty set when absent
Reactors(m, e) ==
    IF m \in DOMAIN reactions /\ e \in DOMAIN reactions[m]
    THEN reactions[m][e] ELSE {}

AddReaction(s, m, e, uid) ==
    /\ alive
    /\ s \in connected
    /\ ev' = Event("add_reaction", s, e, uid, <<>>, m)
    /\ out' = <<>>
    /\ IF uid \notin DOMAIN users
       THEN UNCHANGED <<reactions, alive, reactSent>>
       ELSE LET old == IF m \in DOMAIN reactions THEN reactions[m]
                       ELSE [x \in {} |-> {}]
                new == [x \in (DOMAIN old) \cup {e} |->
                           IF x = e THEN Reactors(m, e) \cup {uid} ELSE old[x]]
            IN  /\ reactions' = [x \in (DOMAIN reactions) \cup {m} |->
                                    IF x = m THEN new ELSE reactions[x]]
                /\ reactSent' = reactSent \cup {<<m, e, uid>>}
                \* io.to(currentBoard || boardId): neither name is declared, the
                \* ReferenceError is uncaught and ends the process before the emit
                /\ alive' = FALSE
    /\ UNCHANGED <<users, userIdCounter, messages, boardUsers, boardOrder,
                   bannedIPs, messageTimestamps, connected, clientIP, socketSeq,
                   now, msgSeq, lastRoster, joined, sendTimes,
                   regLog, refused, response>>

----------------------------------------------------------------------------
(* the clock *)

Tick ==
    /\ alive
    /\ now < MaxTicks * TickMs
    /\ now' = now + TickMs
    /\ out' = <<>>
    /\ ev' = Event("tick", 0, "", 0, <<>>, 0)
    /\ UNCHANGED <<users, userIdCounter, messages, boardUsers, boardOrder,
                   bannedIPs, messageTimestamps, reactions, connected, clientIP,
                   socketSeq, msgSeq, alive, lastRoster, joined, sendTimes,
                   regLog, reactSent, refused, response>>

----------------------------------------------------------------------------
(* Inputs *)

IP1 == <<"1">>
IP2 == <<"2">>
IPs == {IP1, IP2}

Sockets == 1..MaxSockets

AnonUser  == [id |-> 1, username |-> Anonymous, avatar |-> AN]
GhostUser == [id |-> 9, username |-> <<"g","h","o","s","t">>, avatar |-> <<"G","H">>]

----------------------------------------------------------------------------
(* Spec: presence -- connection, join_board, leave_board, disconnect *)

PresenceBoards == {"b", "zzz"}
PresenceUsers  == {AnonUser, GhostUser, NoUser}

PresenceSockets == {1, 2}

DoConnect == socketSeq + 1 \in PresenceSockets /\ Connect(IP1)
DoDisconnect == \E s \in Sockets : ClientDisconnect(s)
DoJoin == \E s \in Sockets, b \in PresenceBoards, u \in PresenceUsers : JoinBoard(s, b, u)
DoLeave == \E s \in Sockets, b \in PresenceBoards : LeaveBoard(s, b)

Next == DoConnect \/ DoDisconnect \/ DoJoin \/ DoLeave

Spec == Init /\ [][Next]_vars

----------------------------------------------------------------------------
(* Claims checked under Spec *)

Closed == (1..socketSeq) \ connected

EntriesOf(b, s) == {i \in 1..Len(boardUsers[b]) : boardUsers[b][i].socketId = s}

JoinedOn(b) == {s \in 1..socketSeq : <<b, s>> \in joined}

\* C1: the users list and count of the last online_users_update of a board are
\* exactly the connections that joined it and have not since left or
\* disconnected: one entry per such connection, no duplicate, no stale entry.
C1_RosterExact ==
    \A b \in DOMAIN lastRoster :
        /\ Len(lastRoster[b]) = Cardinality(JoinedOn(b))
        /\ lastRoster[b] = OnlineUsers(boardUsers[b])
        /\ \A s \in 1..socketSeq : Cardinality(EntriesOf(b, s)) =
                                      IF s \in JoinedOn(b) THEN 1 ELSE 0

\* C2: boardUsers[board] never holds two entries with the same socketId.
C2_JoinIdempotent ==
    \A b \in DOMAIN boardUsers :
        \A s \in 1..socketSeq : Cardinality(EntriesOf(b, s)) <= 1

\* C10: a closed connection has no entry in any board set and no entry in
\* messageTimestamps (closed sockets never return to connected: socket ids are
\* never reused).
C10_ClosedIsClean ==
    \A s \in Closed :
        /\ s \notin DOMAIN messageTimestamps
        /\ \A b \in DOMAIN boardUsers : EntriesOf(b, s) = {}

\* the connections that hold a membership on board b
Members(bu, b) ==
    IF b \in DOMAIN bu THEN {bu[b][i].socketId : i \in 1..Len(bu[b])} ELSE {}

\* the positions in the emits o of the emits to room b
EmitsTo(o, b) == {i \in 1..Len(o) : o[i].room = b}

\* C14: a join_board, leave_board or disconnect that changes the members of a
\* board emits to that board one online_users_update immediately followed by
\* one user_count_update, both with the board set as it is after the event,
\* and nothing else; one that does not change its members emits nothing to it.
C14_OneRosterBroadcast ==
    [][ev'.type \in {"join_board", "leave_board", "disconnect"} =>
          \A b \in (DOMAIN boardUsers') \cup PresenceBoards :
              IF Members(boardUsers', b) # Members(boardUsers, b)
              THEN \E i \in 1..Len(out') :
                      /\ EmitsTo(out', b) = {i, i + 1}
                      /\ SubSeq(out', i, i + 1) = RosterEmits(b, boardUsers'[b])
              ELSE EmitsTo(out', b) = {}]_vars

\* C15: the userId of every entry of every board set is a key of users, and a
\* join_board without a user or with an id that is not a key of users adds no
\* entry and emits nothing.
C15_MembersRegistered ==
    /\ [](\A b \in DOMAIN boardUsers :
            \A i \in 1..Len(boardUsers[b]) :
                boardUsers[b][i].userId \in DOMAIN users)
    /\ [][(ev'.type = "join_board" /\ ev'.uid \notin DOMAIN users) =>
            (boardUsers' = boardUsers /\ out' = <<>>)]_vars

\* a join with an unregistered id was dropped while the board has a member
C15_Witness ==
    /\ ev.type = "join_board" /\ ev.uid = GhostUser.id
    /\ out = <<>>
    /\ ev.board \in DOMAIN boardUsers /\ boardUsers[ev.board] # <<>>

\* the entries of a board set that belong to other sockets than s, in order
OthersIn(set, s) ==
    LET NotMine(u) == u.socketId # s
    IN  SelectSeq(set, NotMine)

\* C23: a leave_board by a socket with no entry in the named board set emits
\* nothing and changes nothing; one by a socket with an entry removes one
\* entry of that socket from that board set and leaves the entries of other
\* sockets, the other board sets, the logs, the ban set, the windows and the
\* connections as they were.
C23_LeaveLocal ==
    [][ev'.type = "leave_board" =>
          LET s == ev'.sid
              b == ev'.board
          IN  /\ UNCHANGED <<messages, msgSeq, bannedIPs, messageTimestamps,
                             connected, users, reactions>>
              /\ IF b \notin DOMAIN boardUsers \/ EntriesOf(b, s) = {}
                 THEN out' = <<>> /\ UNCHANGED <<boardUsers, boardOrder>>
                 ELSE /\ DOMAIN boardUsers' = DOMAIN boardUsers
                      /\ \A x \in DOMAIN boardUsers :
                            x # b => boardUsers'[x] = boardUsers[x]
                      /\ Len(boardUsers'[b]) = Len(boardUsers[b]) - 1
                      /\ OthersIn(boardUsers'[b], s) = OthersIn(boardUsers[b], s)]_vars

\* a connection left a board on which another connection stays, while it
\* keeps its own membership on another board
C23_Witness ==
    /\ ev.type = "leave_board" /\ out # <<>>
    /\ boardUsers[ev.board] # <<>>
    /\ EntriesOf(ev.board, ev.sid) = {}
    /\ \E x \in DOMAIN boardUsers : x # ev.board /\ EntriesOf(x, ev.sid) # {}

\* C24: every board id that owns a message log or a board set is an id of
\* the boards catalog.
C24_BoardsFixed ==
    /\ DOMAIN messages \subseteq BoardIds
    /\ DOMAIN boardUsers \subseteq BoardIds

----------------------------------------------------------------------------
(* SpecRate: the rate limiter -- connection, send_message, the clock, disconnect *)

Hi == <<"h","i">>

RateSockets == {1, 2}
RateSenders == {1}

RateConnect == \E ip \in IPs : socketSeq + 1 \in RateSockets /\ Connect(ip)
RateSend == \E s \in RateSenders : SendMessage(s, "b", Hi, 1)
RateDisconnect == \E s \in RateSockets : ClientDisconnect(s)

NextRate == RateConnect \/ RateSend \/ Tick \/ RateDisconnect

SpecRate == Init /\ [][NextRate]_vars


(* Claims checked under SpecRate *)

\* the sends h[k..k+10] of one connection lie within one 30-second window
ElevenInWindow(h, k) == k + 10 <= Len(h) /\ h[k + 10] - h[k] <= WINDOW_MS

\* C3: the 11th send_message of a connection within one 30-second window
\* disconnects it and bans its origin, and a connection attempt from a banned
\* origin is rejected: error emitted, socket closed, no rate-limit window.
C3_SpamBan ==
    /\ \A s \in DOMAIN sendTimes :
          \A k \in 1..Len(sendTimes[s]) :
              ElevenInWindow(sendTimes[s], k) =>
                  /\ Len(sendTimes[s]) = k + 10
                  /\ s \notin connected
                  /\ s \notin DOMAIN messageTimestamps
                  /\ clientIP[s] \in bannedIPs
    /\ (ev.type = "connection" /\ ev.text \in bannedIPs) =>
          /\ ev.result = 0
          /\ ev.sid \notin connected
          /\ ev.sid \notin DOMAIN messageTimestamps
          /\ out = << SocketEmit("error", ev.sid) >>

\* a connection was banned by 11 sends that span a clock advance, and the last
\* event is a rejected connection attempt from its origin
C3_Witness ==
    /\ ev.type = "connection" /\ ev.result = 0
    /\ \E s \in DOMAIN sendTimes :
          /\ Len(sendTimes[s]) = 11
          /\ sendTimes[s][1] < sendTimes[s][11]
          /\ clientIP[s] = ev.text

\* C4: no connected socket has an origin that is in the ban set.
C4_NoLiveBannedOrigin ==
    \A s \in connected : clientIP[s] \notin bannedIPs

\* the sends in the history h that are not older than 30 seconds at time t
InWindow(h, t) == {i \in 1..Len(h) : h[i] >= t - WINDOW_MS}

\* C20: a send_message closes the connection and bans its origin exactly when
\* the connection has made more than 10 sends, this one included, that are
\* not older than 30 seconds; that send is neither stored nor broadcast; every
\* other send of user 1 with a non-empty text is stored; and an accepted
\* connection starts with an empty window.
C20_SlidingWindow ==
    /\ [][(ev'.type = "send_message" /\ sendTimes' # sendTimes) =>
            LET s == ev'.sid
            IN  IF Cardinality(InWindow(sendTimes'[s], now)) > RATE_LIMIT
                THEN /\ s \notin connected'
                     /\ clientIP[s] \in bannedIPs'
                     /\ out' = << SocketEmit("error", s) >>
                     /\ UNCHANGED <<messages, msgSeq>>
                ELSE /\ s \in connected'
                     /\ bannedIPs' = bannedIPs
                     /\ msgSeq' = msgSeq + 1
                     /\ out' = << RoomEmit("new_message", "b", NoUsers, 0,
                                           msgSeq') >>]_vars
    /\ [][(ev'.type = "connection" /\ socketSeq' # socketSeq
            /\ socketSeq' \in connected') =>
            messageTimestamps'[socketSeq'] = <<>>]_vars

\* a connection has sent 20 messages, 10 at a time more than 30 seconds apart,
\* and is still connected
C20_Witness ==
    \E s \in connected :
        /\ Len(sendTimes[s]) = 2 * RATE_LIMIT
        /\ Len(messageTimestamps[s]) = RATE_LIMIT
        /\ ev.type = "send_message" /\ ev.sid = s

----------------------------------------------------------------------------
(* SpecLog: the bounded message log, from a log that already holds messages *)

GetMessagesOldest(b) ==
    LET log == BoardLog(b)
    IN  SubSeq(log, 1, IF Len(log) < HISTORY_MAX THEN Len(log) ELSE HISTORY_MAX)

\* boardMessages.slice(-100)
GetMessages(b) ==
    LET log == BoardLog(b)
    IN  IF Len(log) <= HISTORY_MAX THEN log
        ELSE SubSeq(log, Len(log) - HISTORY_MAX + 1, Len(log))

\* app.get('/api/boards/:boardId/messages', ...)
HistoryQuery(b) ==
    /\ alive
    /\ response' = GetMessages(b)
    /\ ev' = Event("get_messages", 0, b, 0, <<>>, 0)
    /\ out' = <<>>
    /\ UNCHANGED <<users, userIdCounter, messages, boardUsers, boardOrder,
                   bannedIPs, messageTimestamps, reactions, connected, clientIP,
                   socketSeq, now, msgSeq, alive, lastRoster, joined, sendTimes,
                   regLog, reactSent, refused>>

\* n messages sent to /b/ by the Anonymous user through earlier connections
Prefill(n) ==
    [i \in 1..n |->
        [id |-> i, board_id |-> "b", user_id |-> 1, username |-> Anonymous,
         avatar |-> AN, message |-> Hi, timestamp |-> 0]]

LogPrefills == {0, HISTORY_MAX - 1, MAX_MESSAGES - 2}

InitLog ==
    /\ InitRest
    /\ \E n \in LogPrefills :
          /\ messages = [b \in BoardIds |-> IF b = "b" THEN Prefill(n) ELSE <<>>]
          /\ msgSeq = n

BasedText  == <<"t","h","i","s"," ","i","s"," ","s","o"," ","b","a","s","e","d">>
MixedBased == <<" ","B","a","S","e","D","!"," ">>

RECURSIVE SumSends(_)
SumSends(S) ==
    IF S = {} THEN 0
    ELSE LET x == CHOOSE y \in S : TRUE
         IN  Len(sendTimes[x]) + SumSends(S \ {x})

LogSockets == {1, 2}

LogConnect == socketSeq + 1 \in LogSockets /\ Connect(IP1)
LogSend ==
    \E s \in LogSockets, b \in {"b", "zzz"}, text \in {Hi} :
        /\ SumSends(DOMAIN sendTimes) < MaxAppends
        /\ SendMessage(s, b, text, 1)
LogDisconnect == \E s \in LogSockets : ClientDisconnect(s)

LogQuery == \E b \in {"b", "pol", "nope"} : HistoryQuery(b)

NextLog == LogConnect \/ LogSend \/ LogDisconnect \/ LogQuery

SpecLog == InitLog /\ [][NextLog]_vars

(* Claims checked under SpecLog *)

\* C7: no board log exceeds 1000 entries; an append to a log of fewer than 1000
\* adds the message at the end, an append to a full log also drops the oldest
\* entry and only it, keeping the order, and the dropped message is not in the
\* history query afterwards.
C7_LogBounded ==
    /\ [](\A b \in DOMAIN messages : Len(messages[b]) <= MAX_MESSAGES)
    /\ [][\A b \in (DOMAIN messages) \cup {"zzz"} :
            BoardLog(b)' # BoardLog(b) =>
                LET old == BoardLog(b)
                    new == BoardLog(b)'
                    m   == new[Len(new)]
                IN  /\ m.id = msgSeq' /\ msgSeq' = msgSeq + 1
                    /\ IF Len(old) < MAX_MESSAGES
                       THEN new = Append(old, m)
                       ELSE /\ new = Append(Tail(old), m)
                            /\ \A i \in 1..Len(GetMessages(b)') :
                                  GetMessages(b)'[i].id # old[1].id]_vars

\* the 1001st message was appended to /b/ and message 1 is gone
C7_Witness ==
    /\ Len(messages["b"]) = MAX_MESSAGES
    /\ messages["b"][1].id = 2
    /\ messages["b"][MAX_MESSAGES].id = msgSeq
    /\ ev.type = "send_message"

\* C13: the history query of a board whose log holds n messages answers with
\* the last min(100, n) of them in log order, with the empty sequence when the
\* board has no message or is unknown, and changes nothing.
C13_HistoryQuery ==
    [][ev'.type = "get_messages" =>
          LET log == IF ev'.board \in DOMAIN messages
                     THEN messages[ev'.board] ELSE <<>>
              n   == Len(log)
              k   == IF n < 100 THEN n ELSE 100
          IN  /\ Len(response') = k
              /\ \A i \in 1..k : response'[i] = log[n - k + i]
              /\ n = 0 => response' = <<>>
              /\ UNCHANGED <<users, userIdCounter, messages, boardUsers,
                             boardOrder, bannedIPs, messageTimestamps, reactions,
                             connected, msgSeq, alive>>]_vars

\* a query of a log of more than 100 messages answered with 100 of them, the
\* newest last
C13_Witness ==
    /\ ev.type = "get_messages"
    /\ Len(BoardLog(ev.board)) > HISTORY_MAX
    /\ Len(response) = HISTORY_MAX
    /\ response[HISTORY_MAX].id = msgSeq

\* the ids of the messages of a log, in log order
IdsOf(log) == [i \in 1..Len(log) |-> log[i].id]

RECURSIVE NewMessageIds(_, _, _)
\* the ids of the new_message emits to room b among the emits o[i..], in order
NewMessageIds(o, b, i) ==
    IF i > Len(o) THEN <<>>
    ELSE IF o[i].type = "new_message" /\ o[i].room = b
         THEN <<o[i].msgId>> \o NewMessageIds(o, b, i + 1)
         ELSE NewMessageIds(o, b, i + 1)

\* the last n entries of the sequence q
LastN(q, n) == IF Len(q) <= n THEN q ELSE SubSeq(q, Len(q) - n + 1, Len(q))

\* C21: whatever the order in which several connections send to a board, every
\* step extends the log of each board by exactly the messages it broadcasts
\* as new_message to that board, in broadcast order, dropping from the front
\* one entry per entry past 1000; ids are drawn in broadcast order and the
\* ids of a log strictly increase, so no message is stored twice; and the
\* message of a new_message broadcast is in the log, whole, in the state
\* after it.
C21_AtomicAppend ==
    /\ [][\A b \in (DOMAIN messages') \cup {"b", "zzz"} :
            LET sent == NewMessageIds(out', b, 1)
                new  == IF b \in DOMAIN messages' THEN messages'[b] ELSE <<>>
            IN  /\ IdsOf(new) = LastN(IdsOf(BoardLog(b)) \o sent, MAX_MESSAGES)
                /\ Len(sent) <= 1
                /\ sent # <<>> =>
                      LET m == new[Len(new)]
                      IN  /\ m.board_id = b
                          /\ m.message = trim(ev'.text)
                          /\ m.user_id \in DOMAIN users
                          /\ m.username = users[m.user_id].username]_vars
    /\ [](\A b \in DOMAIN messages :
            \A i \in 1..(Len(messages[b]) - 1) :
                messages[b][i].id < messages[b][i + 1].id)

\* two connections have both sent to /b/, the log is full and has evicted its
\* oldest entry
C21_Witness ==
    /\ \A s \in LogSockets : s \in DOMAIN sendTimes /\ Len(sendTimes[s]) > 0
    /\ Len(messages["b"]) = MAX_MESSAGES
    /\ messages["b"][1].id > 1
    /\ messages["b"][MAX_MESSAGES].id = msgSeq
    /\ ev.type = "send_message" /\ ev.board = "b"

----------------------------------------------------------------------------
(* SpecUsers: POST /api/users *)

Bob       == <<"B","o","b">>
BobPadded == <<" ","b","o","b"," ">>
Long1     == [i \in 1..21 |-> IF i = 21 THEN "x" ELSE "a"]
Long2     == [i \in 1..22 |-> IF i > 20 THEN "y" ELSE "a"]
Blank     == <<" ">>
Alice     == <<"A","l","i","c","e">>
RegNames  == {Bob, BobPadded, Alice, Long1, Long2, Blank, <<>>}

DoRegister == \E n \in RegNames : Register(n)

NextUsers == DoRegister

SpecUsers == Init /\ [][NextUsers]_vars

(* Claims checked under SpecUsers *)

\* C6: two POST /api/users calls whose names are equal after trim, truncation
\* to 20 characters and case folding return the same id, and the directory
\* holds one entry for that name.
C6_RegisterIdempotent ==
    /\ \A p, q \in regLog : p[1] = q[1] => p[2] = q[2]
    /\ \A i, j \in DOMAIN users :
          toLowerCase(users[i].username) = toLowerCase(users[j].username) => i = j

----------------------------------------------------------------------------
(* SpecReact: add_reaction *)

ReactConnect == Connect(IP1)
ReactRegister == \E n \in {Bob, Long1} : Register(n)
DoReact ==
    \E s \in Sockets, m \in {1, 2}, e \in {"thumbsup", "fire"}, uid \in {1, 2, 9} :
        AddReaction(s, m, e, uid)
ReactDisconnect == \E s \in Sockets : ClientDisconnect(s)

NextReact == ReactConnect \/ ReactRegister \/ DoReact \/ ReactDisconnect

SpecReact == Init /\ [][NextReact]_vars

(* Claims checked under SpecReact *)

\* C8: a sequence of add_reaction events is handled one after the other: after
\* each the server is still serving, and the count recorded for an emoji on a
\* message is the number of distinct registered ids that reacted with it.
C8_ReactionIdempotent ==
    \A r \in reactSent :
        /\ alive
        /\ Cardinality(Reactors(r[1], r[2])) =
              Cardinality({u \in DOMAIN users : <<r[1], r[2], u>> \in reactSent})

\* reactionData: every emoji recorded for message m with its number of reactors
ReactionData(rs, m) ==
    IF m \in DOMAIN rs THEN [e \in DOMAIN rs[m] |-> Cardinality(rs[m][e])]
    ELSE [e \in {} |-> 0]

\* C18: an add_reaction by a registered id leaves the server running and emits
\* one message_reactions_update for that message, carrying every emoji
\* recorded for it with the number of ids that reacted; an add_reaction by an
\* unregistered id changes nothing and emits nothing.
C18_ReactionBroadcast ==
    [][ev'.type = "add_reaction" =>
          IF ev'.uid \in DOMAIN users
          THEN /\ alive'
               /\ Len(out') = 1
               /\ out'[1].type = "message_reactions_update"
               /\ out'[1].msgId = ev'.result
               /\ out'[1].users = ReactionData(reactions', ev'.result)
               /\ ev'.result \in DOMAIN reactions'
               /\ ev'.board \in DOMAIN reactions'[ev'.result]
               /\ ev'.uid \in reactions'[ev'.result][ev'.board]
          ELSE /\ out' = <<>>
               /\ UNCHANGED <<reactions, alive, users, messages, boardUsers>>]_vars

----------------------------------------------------------------------------
(* SpecChat: moderator commands, chat messages and the keyword trigger *)

BanIpText   == BanIpPrefix \o IP2
BanUserText == BanUserPrefix \o Anonymous
ChatTexts   == {Blank, MixedBased, BanIpText, BanUserText}
ChatUids    == {1, NullId, MissingId}
ChatSockets == {1, 2}
ChatSenders == {1}

ChatConnect == socketSeq + 1 \in ChatSockets /\ Connect(IP1)
ChatJoin == \E s \in ChatSockets : JoinBoard(s, "b", AnonUser)
ChatSend ==
    \E s \in ChatSenders, text \in ChatTexts, uid \in ChatUids :
        /\ SendMessage(s, "b", text, uid)
        /\ msgSeq' <= MaxStored

NextChat == ChatConnect \/ ChatJoin \/ ChatSend

SpecChat == Init /\ [][NextChat]_vars

(* Claims checked under SpecChat *)

IsCommand(t) == startsWith(t, BanIpPrefix) \/ startsWith(t, BanUserPrefix)

\* the send_message being handled passes the rate limiter
NotRateLimited(s) ==
    ~OverLimit(DropOld(Append(messageTimestamps[s], now), now))

\* C5: a send_message whose text starts with '/banip ' or '/ban @', sent with an
\* identity whose resolved id is not the moderator id, is stored and broadcast
\* as a chat message, and changes neither the ban set nor the connections.
C5_NoPrivilegeLeak ==
    [][(/\ ev'.type = "send_message"
        /\ ev' # ev \/ sendTimes' # sendTimes
        /\ IsCommand(trim(ev'.text))
        /\ LookupUser(ev'.uid).id # MOD_USER_ID
        /\ NotRateLimited(ev'.sid))
       => (/\ bannedIPs' = bannedIPs
           /\ connected' = connected
           /\ msgSeq' = msgSeq + 1
           /\ Len(out') >= 1
           /\ out'[1] = RoomEmit("new_message", ev'.board, NoUsers, 0, msgSeq'))]_vars

\* the text contains the keyword, in any case
HasKeyword(t) ==
    LET low == toLowerCase(t)
    IN  \E i \in 1..(Len(low) - Len(Based) + 1) :
            SubSeq(low, i, i + Len(Based) - 1) = Based

Confetti(b, id) == RoomEmit("confetti_trigger", b, NoUsers, 0, id)
NewMessage(b, id) == RoomEmit("new_message", b, NoUsers, 0, id)

\* C9: a send_message that is stored emits new_message and then, exactly when
\* its trimmed text contains 'based' in any case, one confetti_trigger with the
\* id of that message; a send_message that is not stored emits no
\* confetti_trigger.
C9_Confetti ==
    [][(ev'.type = "send_message" /\ sendTimes' # sendTimes) =>
          IF msgSeq' # msgSeq
          THEN out' = << NewMessage(ev'.board, msgSeq') >> \o
                      (IF HasKeyword(trim(ev'.text))
                       THEN << Confetti(ev'.board, msgSeq') >> ELSE <<>>)
          ELSE \A i \in 1..Len(out') : out'[i].type # "confetti_trigger"]_vars

\* a stored message with the keyword in mixed case triggered the confetti
C9_Witness ==
    /\ ev.type = "send_message"
    /\ trim(ev.text) # toLowerCase(trim(ev.text))
    /\ Len(out) = 2
    /\ out[2] = Confetti("b", msgSeq)

----------------------------------------------------------------------------
(* SpecBan: connections from banned origins *)

BanIp1Text == BanIpPrefix \o IP1

BanSockets == {1, 2}

BanConnect == \E ip \in IPs : socketSeq + 1 \in BanSockets /\ Connect(ip)
BanJoin == \E s \in BanSockets : JoinBoard(s, "b", AnonUser)
BanSend ==
    \E s \in BanSockets, text \in {BanIp1Text, Hi}, uid \in {NullId, GhostUser.id} :
        /\ SumSends(DOMAIN sendTimes) < MaxSends
        /\ SendMessage(s, "b", text, uid)
BanReact == \E s \in BanSockets, uid \in {1, 9} : AddReaction(s, 1, "fire", uid)
BanDisconnect == \E s \in BanSockets : ClientDisconnect(s)

NextBan == BanConnect \/ BanJoin \/ BanSend \/ BanReact \/ BanDisconnect

SpecBan == Init /\ [][NextBan]_vars

(* Claims checked under SpecBan *)

\* C11: a connection whose origin is in the ban set when it connects gets one
\* error emit and is closed: it is never connected, never has a rate-limit
\* window or an entry in a board set, and no step made by it changes the shared
\* state or emits anything but that error.
C11_BannedRejected ==
    /\ [](\A s \in refused :
            /\ s \notin connected
            /\ s \notin DOMAIN messageTimestamps
            /\ \A b \in DOMAIN boardUsers : EntriesOf(b, s) = {})
    /\ [][ev'.sid \in refused' =>
            /\ UNCHANGED <<users, messages, boardUsers, bannedIPs, reactions,
                           connected, messageTimestamps, msgSeq>>
            /\ out' = IF socketSeq' # socketSeq
                      THEN << SocketEmit("error", ev'.sid) >> ELSE <<>>]_vars

\* a connection from a banned origin was refused while another connection
\* holds a membership
C11_Witness ==
    /\ ev.type = "connection" /\ ev.sid \in refused
    /\ out = << SocketEmit("error", ev.sid) >>
    /\ \E b \in DOMAIN boardUsers : boardUsers[b] # <<>>

\* C12: a send_message that passes the rate limiter with a userId that is not
\* a key of users emits one error to the sender and stops: nothing is stored,
\* nothing is broadcast, the ban set and the board sets are unchanged.
C12_UnknownIdentityRejected ==
    [][(/\ ev'.type = "send_message"
        /\ sendTimes' # sendTimes
        /\ ev'.uid \notin DOMAIN users
        /\ NotRateLimited(ev'.sid))
       => (/\ out' = << SocketEmit("error", ev'.sid) >>
           /\ UNCHANGED <<messages, msgSeq, bannedIPs, boardUsers>>)]_vars

\* C19: every send_message of a connection, whatever its text and userId, is
\* recorded in its window (the window is the sends not yet older than 30
\* seconds at the last send), so any 11 sends within 30 seconds close the
\* connection and ban its origin; and a send_message whose text is empty
\* after trim and that is not rate-limited emits nothing and changes neither
\* the logs, the ban set, the connections nor the board sets.
C19_RateLimitFirst ==
    /\ [](\A s \in DOMAIN messageTimestamps :
            Len(sendTimes[s]) > 0 =>
                messageTimestamps[s] =
                    DropOld(sendTimes[s], sendTimes[s][Len(sendTimes[s])]))
    /\ [](\A s \in DOMAIN sendTimes :
            \A k \in 1..Len(sendTimes[s]) :
                ElevenInWindow(sendTimes[s], k) =>
                    (s \notin connected /\ clientIP[s] \in bannedIPs))
    /\ [][(/\ ev'.type = "send_message"
            /\ sendTimes' # sendTimes
            /\ trim(ev'.text) = <<>>
            /\ NotRateLimited(ev'.sid))
           => (/\ out' = <<>>
               /\ UNCHANGED <<messages, msgSeq, bannedIPs, connected,
                              boardUsers>>)]_vars

\* the 11th send of a connection, an empty text after stored messages and
\* moderator commands, closed it
C19_Witness ==
    /\ ev.type = "send_message" /\ trim(ev.text) = <<>>
    /\ Len(sendTimes[ev.sid]) = RATE_LIMIT + 1
    /\ ev.sid \notin connected
    /\ out = << SocketEmit("error", ev.sid) >>
    /\ msgSeq > 0
    /\ bannedIPs # {clientIP[ev.sid]}

\* C17: when '/banip <origin>' is handled for the moderator, the ban set gains
\* the trimmed origin string and nothing else, the handler emits one notice, to
\* the issuer, and nothing to any room, no log grows, no socket is
\* disconnected and no board set changes.
C17_BanIpOnly ==
    [][(/\ ev'.type = "send_message"
        /\ sendTimes' # sendTimes
        /\ ev'.uid = MOD_USER_ID
        /\ startsWith(trim(ev'.text), BanIpPrefix)
        /\ NotRateLimited(ev'.sid))
       => (/\ bannedIPs' = bannedIPs \cup {trim(slice(trim(ev'.text), 7))}
           /\ out' = << SocketEmit("notice", ev'.sid) >>
           /\ UNCHANGED <<messages, msgSeq, connected, boardUsers>>)]_vars

\* '/banip 1' was handled while a connection from origin 1 is connected and
\* holds a membership, and it still is
C17_Witness ==
    /\ ev.type = "send_message" /\ ev.text = BanIp1Text /\ ev.uid = MOD_USER_ID
    /\ IP1 \in bannedIPs
    /\ out = << SocketEmit("notice", ev.sid) >>
    /\ \E s \in connected :
          /\ clientIP[s] = IP1
          /\ \E b \in DOMAIN boardUsers : EntriesOf(b, s) # {}

----------------------------------------------------------------------------
(* SpecMod: the moderator command '/ban @<name>' *)

BobLower   == toLowerCase(Bob)
BobUser    == [id |-> 1, username |-> Bob, avatar |-> <<"B","O">>]
BobLowUser == [id |-> 1, username |-> BobLower, avatar |-> <<"B","O">>]
BanBobText == BanUserPrefix \o Bob

ModSockets == {1, 2}

\* socket 1 connects from IP1, socket 2 from IP2
ModConnect ==
    /\ socketSeq + 1 \in ModSockets
    /\ Connect(IF socketSeq = 0 THEN IP1 ELSE IP2)
\* socket 1 joins as Bob, socket 2 as Bob or as bob
ModJoin ==
    \E s \in ModSockets, b \in {"b", "pol"}, u \in {BobUser, BobLowUser} :
        /\ s = 1 => u = BobUser
        /\ b = "pol" => u = BobUser
        /\ JoinBoard(s, b, u)
ModSend ==
    \E s \in ModSockets :
        /\ SumSends(DOMAIN sendTimes) < MaxSends
        /\ SendMessage(s, "b", BanBobText, MOD_USER_ID)
ModDisconnect == \E s \in ModSockets : ClientDisconnect(s)

NextMod == ModConnect \/ ModJoin \/ ModSend \/ ModDisconnect

SpecMod == Init /\ [][NextMod]_vars

(* Claims checked under SpecMod *)

\* the connected sockets with an entry named name in some board set
Named(name) ==
    {s \in connected :
        \E b \in DOMAIN boardUsers : \E i \in 1..Len(boardUsers[b]) :
            boardUsers[b][i].socketId = s /\ boardUsers[b][i].username = name}

\* C16: when '/ban @<name>' is handled for the moderator, exactly the connected
\* sockets with an entry whose username is <name> (same case) are disconnected,
\* the ban set gains the issuer's origin if the issuer is one of them and
\* 'unknown' if another socket is, and the handler emits one notice, to the
\* issuer, and stores nothing.
C16_BanByName ==
    [][(/\ ev'.type = "send_message"
        /\ sendTimes' # sendTimes
        /\ ev'.uid = MOD_USER_ID
        /\ startsWith(trim(ev'.text), BanUserPrefix)
        /\ NotRateLimited(ev'.sid))
       => LET hit == Named(trim(slice(trim(ev'.text), 6)))
          IN  /\ connected' = connected \ hit
              /\ bannedIPs \subseteq bannedIPs'
              /\ bannedIPs' \subseteq bannedIPs \cup {clientIP[ev'.sid], Unknown}
              /\ \A s \in hit : (IF s = ev'.sid THEN clientIP[s] ELSE Unknown)
                                    \in bannedIPs'
              /\ Cardinality({i \in 1..Len(out') : out'[i].sock # 0}) = 1
              /\ out'[Len(out')] = SocketEmit("notice", ev'.sid)
              /\ UNCHANGED <<messages, msgSeq>>]_vars

\* '/ban @Bob' closed two connections named Bob, the issuer and another one
C16_Witness ==
    /\ ev.type = "send_message" /\ ev.text = BanBobText
    /\ connected = {}
    /\ socketSeq = 2
    /\ {clientIP[ev.sid], Unknown} \subseteq bannedIPs
    /\ out[Len(out)] = SocketEmit("notice", ev.sid)
    /\ Len(out) > 1

\* '/ban @Bob' left a connection named bob connected
C16_WitnessCase ==
    /\ ev.type = "send_message" /\ ev.text = BanBobText
    /\ out = << SocketEmit("notice", ev.sid) >>
    /\ \E b \in DOMAIN boardUsers : \E i \in 1..Len(boardUsers[b]) :
          boardUsers[b][i].username = BobLower /\ boardUsers[b][i].socketId \in connected

----------------------------------------------------------------------------
(* SpecAll: every kind of event, with small inputs *)

AllSockets == {1, 2}
AllSenders == {1}
AllMembers == {2}
AllTexts   == {BanIpText, BanUserText}
AllUids    == {1, MOD_USER_ID}

AllConnect == socketSeq + 1 \in AllSockets /\ Connect(IP1)
AllJoin == \E s \in AllMembers : JoinBoard(s, "b", AnonUser)
AllLeave == \E s \in AllMembers : LeaveBoard(s, "b")
AllSend ==
    \E s \in AllSenders, text \in AllTexts, uid \in AllUids :
        /\ SendMessage(s, "b", text, uid)
        /\ msgSeq' <= MaxStored
AllReact == \E s \in AllMembers, uid \in {1, GhostUser.id} : AddReaction(s, 1, "fire", uid)
AllRegister == Register(Bob)
AllDisconnect == \E s \in AllSockets : ClientDisconnect(s)

NextAll == AllConnect \/ AllJoin \/ AllLeave \/ AllSend \/ AllReact
              \/ AllRegister \/ AllDisconnect

SpecAll == Init /\ [][NextAll]_vars

(* Claims checked under SpecAll *)

\* C22: no step removes an entry of the ban set, and a step adds one only if
\* it is a send_message that either is the sender's 11th within 30 seconds,
\* adding the sender's origin and nothing else, or is not and carries the
\* moderator id with a text starting with '/banip ' or '/ban @'.
C22_BansOnlyGrow ==
    [][/\ bannedIPs \subseteq bannedIPs'
       /\ bannedIPs' # bannedIPs =>
             /\ ev'.type = "send_message"
             /\ sendTimes' # sendTimes
             /\ IF Cardinality(InWindow(sendTimes'[ev'.sid], now)) > RATE_LIMIT
                THEN bannedIPs' = bannedIPs \cup {clientIP[ev'.sid]}
                ELSE /\ ev'.uid = MOD_USER_ID
                     /\ IsCommand(trim(ev'.text))]_vars

\* the ban set holds an origin added by the auto-ban and one added by a
\* command, and the last event, a leave_board, left it as it was
C22_Witness ==
    /\ ev.type = "leave_board"
    /\ Cardinality(bannedIPs) >= 2
    /\ \E s \in DOMAIN sendTimes :
          Len(sendTimes[s]) = RATE_LIMIT + 1 /\ clientIP[s] \in bannedIPs

====
